---- MODULE Spec2Model ----
(***************************************************************************)
(* Blogicum (django_sprint4): the blog application's views over the Post,  *)
(* Category and Comment tables, as a state machine.  One action per view   *)
(* (request handler) of blog/views.py; the framework's generic views,      *)
(* mixins, paginator and URL reversing are modelled by what they do with   *)
(* the attributes the repository's classes set.                            *)
(*                                                                         *)
(* Of a Post the model keeps author, is_published, pub_date and category   *)
(* (the fields the views filter on or assign); title, text, location and   *)
(* image are carried by the same form and never read by a view.  Of a      *)
(* Comment it keeps author, post and text.                                 *)
(***************************************************************************)
EXTENDS Integers, Sequences, FiniteSets, TLC

VARIABLES
    posts,            \* Post table: id -> [author, is_published, pub_date, category]
    comments,         \* Comment table: id -> [author, post, text]
    categories,       \* Category table: slug -> is_published
    next_post_id,     \* AutoField sequence of Post
    next_comment_id,  \* AutoField sequence of Comment
    now,              \* the clock (timezone.now())
    import_time,      \* the clock when blog/views.py was imported
    response,         \* the response to the last request
    crawl             \* the pages a client has fetched walking one listing

vars == <<posts, comments, categories, next_post_id, next_comment_id, now,
          import_time, response, crawl>>

----------------------------------------------------------------------------
(* Bounds of the model *)

MaxPosts == 1

MaxComments == 1

MaxTime == 1

MaxListPosts == 11

(* Program constant: paginate_by of the three ListViews *)
PaginateBy == 10

Users == {"alice", "bob"}

Anonymous == "AnonymousUser"

Viewers == Users \cup {Anonymous}

Usernames == Users \cup {"ghost"}

(* Post.is_published is declared by core.models.BaseModel with its        *)
(* default; a post saved through PostForm, which has no such field, gets   *)
(* that default.                                                           *)
IsPublishedDefault == TRUE

NoCategory == "null"

Categories == {"travel", "drafts"}

Slugs == Categories

Times == 0..MaxTime

Texts == {"t1", "t2"}

Methods == {"GET", "POST"}

PostIds == 1..MaxPosts

CommentIds == 1..MaxComments

NoUser == "null"

(* The data of a POST that passes validation.  request.POST is the         *)
(* client's to fill: it may carry author and post keys next to the keys of *)
(* the form, and the post key may name a post that was never stored.       *)
PostForms == [pub_date : Times, category : Categories, author : Users]

CommentForms == [text : Texts, author : Users, post : 1..(MaxPosts + 1)]

NoData == [author |-> NoUser]

(* The listings order by pub_date alone.  SQL leaves the order of rows     *)
(* that compare equal under ORDER BY unspecified, and every page is a      *)
(* query of its own (LIMIT/OFFSET): each query breaks such ties by         *)
(* ascending or by descending id, two of the orders the database may pick. *)
TieOrders == {"id_asc", "id_desc"}

NoTable == [i \in {} |-> 0]

----------------------------------------------------------------------------
(* Tables *)

Insert(table, id, row) ==
    [i \in DOMAIN table \cup {id} |-> IF i = id THEN row ELSE table[i]]

Remove(table, ids) ==
    [i \in DOMAIN table \ ids |-> table[i]]

Range(s) == {s[i] : i \in DOMAIN s}

(* Mutant: the comments of a deleted post are kept *)
KeepCommentsOfPost(cs, pk) == cs

(* Comment.post: on_delete=CASCADE *)
CascadeDeletePost(cs, pk) ==
    Remove(cs, {c \in DOMAIN cs : cs[c].post = pk})

(* Mutant: PostForm also binds the submitted author *)
PostFormSaveWithAuthor(instance, data) ==
    [instance EXCEPT !.pub_date = data.pub_date,
                     !.category = data.category,
                     !.author = data.author]

(* ModelForm.save: a valid form writes the keys named in its Meta.fields   *)
(* to its instance and leaves the instance's other fields as they are.     *)
(* PostForm does not name author; CommentForm names neither author nor     *)
(* post.                                                                   *)
PostFormSave(instance, data) ==
    [instance EXCEPT !.pub_date = data.pub_date,
                     !.category = data.category]

CommentFormSave(instance, data) ==
    [instance EXCEPT !.text = data.text]

(* Post() and Comment() before a form or a view has written to them *)
NewPost ==
    [author |-> NoUser, is_published |-> IsPublishedDefault,
     pub_date |-> 0, category |-> NoCategory]

NewComment == [author |-> NoUser, post |-> 0, text |-> ""]

----------------------------------------------------------------------------
(* URL configuration: the keyword arguments each named route captures *)

UrlKwargs ==
    [index          |-> {},
     post_detail    |-> {"post_id"},
     edit_post      |-> {"pk"},
     delete_post    |-> {"post_id"},
     category_posts |-> {"category_slug"},
     profile        |-> {"username"},
     create_post    |-> {},
     add_comment    |-> {"post_id"},
     edit_comment   |-> {"post_id", "comment_id"},
     delete_comment |-> {"post_id", "comment_id"}]

(* django.urls.reverse with kwargs: succeeds when the route captures       *)
(* exactly the given keyword arguments, NoReverseMatch otherwise.          *)
ReverseOk(name, kwargs) == UrlKwargs[name] = kwargs

(* SingleObjectMixin.get_object finds the key under pk_url_kwarg *)
HasPkKwarg(name, pk_url_kwarg) == pk_url_kwarg \in UrlKwargs[name]

----------------------------------------------------------------------------
(* Responses *)

Resp(view, user, method, pk, target, status, location) ==
    [view |-> view, user |-> user, method |-> method, pk |-> pk,
     target |-> target, status |-> status, location |-> location,
     object_list |-> <<>>, page |-> 0, num_pages |-> 0, data |-> NoData]

(* The response to a request whose POST data was saved *)
Saved(r, data) == [r EXCEPT !.data = data]

NoResponse == Resp("none", Anonymous, "GET", 0, "", 0, "")

NoCrawl == [view |-> "none", target |-> "", pages |-> <<>>]

(* redirect(reverse(name, kwargs)): 302, or NoReverseMatch -> 500 *)
RedirectTo(view, user, method, pk, target, name, kwargs) ==
    IF ReverseOk(name, kwargs)
    THEN Resp(view, user, method, pk, target, 302, name)
    ELSE Resp(view, user, method, pk, target, 500, "")

(* AccessMixin.handle_no_permission for an unauthenticated user *)
RedirectToLogin(view, user, method, pk, target) ==
    Resp(view, user, method, pk, target, 302, "login")

----------------------------------------------------------------------------
(* Querysets *)

(* filter(category__is_published=True): an inner join on the category, so  *)
(* a post without a category is not in the result.                         *)
CategoryIsPublished(cat) ==
    /\ cat \in DOMAIN categories
    /\ categories[cat]

(* PostListView.queryset is a class attribute: its pub_date__lte bound is  *)
(* timezone.now() evaluated when the class body runs, at import.           *)
(* PostListView.get_queryset then filters on the category.                 *)
IndexQueryset ==
    {p \in DOMAIN posts :
        /\ posts[p].is_published
        /\ posts[p].pub_date <= import_time
        /\ CategoryIsPublished(posts[p].category)}

(* CategoryPostsView.get_queryset, for a category found published *)
CategoryQueryset(slug) ==
    {p \in DOMAIN posts :
        /\ posts[p].category = slug
        /\ posts[p].is_published
        /\ posts[p].pub_date <= now}

(* ProfileView.get_queryset: Post.objects.filter(author=profile) *)
ProfileQueryset(username) ==
    {p \in DOMAIN posts : posts[p].author = username}

(* Row a comes before row b under ORDER BY pub_date DESC, ties by tie *)
Before(a, b, tie) ==
    \/ posts[a].pub_date > posts[b].pub_date
    \/ /\ posts[a].pub_date = posts[b].pub_date
       /\ IF tie = "id_asc" THEN a <= b ELSE a >= b

RECURSIVE OrderByPubDateDesc(_, _)
(* order_by('-pub_date'): the rows of qs as a sequence *)
OrderByPubDateDesc(qs, tie) ==
    IF qs = {} THEN <<>>
    ELSE LET first == CHOOSE a \in qs : \A b \in qs : Before(a, b, tie)
         IN  <<first>> \o OrderByPubDateDesc(qs \ {first}, tie)

----------------------------------------------------------------------------
(* django.core.paginator.Paginator as MultipleObjectMixin uses it:         *)
(* orphans = 0, allow_empty_first_page = True.                             *)

NumPages(count) ==
    IF count = 0 THEN 1 ELSE (count + PaginateBy - 1) \div PaginateBy

(* Mutant: Paginator.get_page, which serves the last page for a number    *)
(* beyond it and the first for a number before it                          *)
GetPageNumber(number, num_pages) ==
    IF number < 1 THEN 1
    ELSE IF number > num_pages THEN num_pages ELSE number

(* Paginator.validate_number: the number, or 0 for EmptyPage *)
ValidateNumber(number, num_pages) ==
    IF number < 1 \/ number > num_pages THEN 0 ELSE number

(* Paginator.page(number).object_list *)
PageObjects(list, number) ==
    LET bottom == (number - 1) * PaginateBy
        top    == IF bottom + PaginateBy >= Len(list) THEN Len(list)
                  ELSE bottom + PaginateBy
    IN  SubSeq(list, bottom + 1, top)

(* MultipleObjectMixin.paginate_queryset behind BaseListView.get: the page *)
(* of the ordered queryset, or Http404 when the page number is invalid.    *)
ListResponse(view, user, target, list, number) ==
    LET num_pages == NumPages(Len(list))
        valid     == ValidateNumber(number, num_pages)
    IN  IF valid = 0
        THEN [Resp(view, user, "GET", 0, target, 404, "")
                EXCEPT !.page = number, !.num_pages = num_pages]
        ELSE [Resp(view, user, "GET", 0, target, 200, "")
                EXCEPT !.object_list = PageObjects(list, valid),
                       !.page = number, !.num_pages = num_pages]

(* The page numbers a client asks for: every page and the one after the   *)
(* last.                                                                   *)
PageNumbers(list) == 1..(NumPages(Len(list)) + 1)

(* A client walking a listing page by page keeps what it was served *)
NextCrawl(r) ==
    IF r.status = 200 /\ r.page = 1
    THEN [view |-> r.view, target |-> r.target, pages |-> <<r.object_list>>]
    ELSE IF /\ r.status = 200
            /\ crawl.view = r.view
            /\ crawl.target = r.target
            /\ r.page = Len(crawl.pages) + 1
         THEN [crawl EXCEPT !.pages = Append(@, r.object_list)]
         ELSE NoCrawl

(* Requests are handled one at a time: a view runs when the response to   *)
(* the request before it has been sent.                                    *)
Idle == response = NoResponse

Listed(r) ==
    /\ Idle
    /\ response' = r
    /\ crawl' = NextCrawl(r)
    /\ UNCHANGED <<posts, comments, categories, next_post_id,
                   next_comment_id, now, import_time>>

----------------------------------------------------------------------------
(* Listing views *)

(* GET / *)
PostListView(user) ==
    \E tie \in TieOrders :
    \E list \in {OrderByPubDateDesc(IndexQueryset, tie)} :
    \E number \in PageNumbers(list) :
    \E r \in {ListResponse("index", user, "", list, number)} :
        Listed(r)

(* GET /category/<slug>/ *)
CategoryPostsView(user, slug) ==
    IF slug \in DOMAIN categories /\ categories[slug]
    THEN \E tie \in TieOrders :
         \E list \in {OrderByPubDateDesc(CategoryQueryset(slug), tie)} :
         \E number \in PageNumbers(list) :
         \E r \in {ListResponse("category_posts", user, slug, list, number)} :
            Listed(r)
    ELSE Listed(Resp("category_posts", user, "GET", 0, slug, 404, ""))

(* GET /profile/<username>/ *)
ProfileView(user, username) ==
    IF username \in Users
    THEN \E tie \in TieOrders :
         \E list \in {OrderByPubDateDesc(ProfileQueryset(username), tie)} :
         \E number \in PageNumbers(list) :
         \E r \in {ListResponse("profile", user, username, list, number)} :
            Listed(r)
    ELSE Listed(Resp("profile", user, "GET", 0, username, 404, ""))

----------------------------------------------------------------------------
(* Access checks *)

(* request.user.is_authenticated *)
IsAuthenticated(user) == user # Anonymous

(* Mutant: PostCreateView without LoginRequiredMixin *)
PostCreateAccessOpen(user) == TRUE

(* LoginRequiredMixin on PostCreateView *)
PostCreateAccess(user) == IsAuthenticated(user)

(* Mutant: test_func that only asks for a logged-in user *)
PostUpdateTestLoggedIn(user, pk) == IsAuthenticated(user)

(* PostUpdateView.test_func, for the post get_object found *)
PostUpdateTestFunc(user, pk) ==
    IsAuthenticated(user) /\ posts[pk].author = user

(* Mutant: get_queryset without the author filter *)
PostDeleteQuerysetAll(user) == DOMAIN posts

(* PostDeleteView.get_queryset: qs.filter(author=self.request.user) *)
PostDeleteQueryset(user) ==
    {p \in DOMAIN posts : posts[p].author = user}

(* Mutant: dispatch without the author comparison *)
EditCommentAnyone(user, c) == TRUE

(* EditCommentView.dispatch: self.object.author != request.user -> Http404 *)
EditCommentIsAuthor(user, c) == comments[c].author = user

(* DeleteCommentView.dispatch: self.object.author != request.user -> Http404 *)
DeleteCommentIsAuthor(user, c) == comments[c].author = user

Answered(r) ==
    /\ Idle
    /\ response' = r
    /\ crawl' = NoCrawl

----------------------------------------------------------------------------
(* Post views *)

(* What a POST carries: data the form rejects, or valid form data *)
Submitted(forms) ==
    {[valid |-> FALSE, form |-> CHOOSE f \in forms : TRUE]}
    \cup {[valid |-> TRUE, form |-> f] : f \in forms}

(* GET /posts/<int:post_id>/ : DetailView.get_object reads                  *)
(* kwargs[pk_url_kwarg], pk_url_kwarg = 'pk' by default; without it (and   *)
(* without a slug) it raises AttributeError.  The queryset is Post.objects *)
(* unfiltered.                                                             *)
PostDetailView(user, pk) ==
    /\ Answered(IF ~HasPkKwarg("post_detail", "pk")
                THEN Resp("post_detail", user, "GET", pk, "", 500, "")
                ELSE IF pk \notin DOMAIN posts
                THEN Resp("post_detail", user, "GET", pk, "", 404, "")
                ELSE Resp("post_detail", user, "GET", pk, "", 200, ""))
    /\ UNCHANGED <<posts, comments, categories, next_post_id,
                    next_comment_id, now, import_time>>

(* GET|POST /posts/create/ : the fields outside PostForm (is_published)    *)
(* take the model's default; form_valid sets the author.                   *)
PostCreateView(user, method) ==
    IF ~PostCreateAccess(user)
    THEN /\ Answered(RedirectToLogin("create_post", user, method, 0, ""))
         /\ UNCHANGED <<posts, comments, categories, next_post_id,
                         next_comment_id, now, import_time>>
    ELSE IF method = "GET"
    THEN /\ Answered(Resp("create_post", user, method, 0, "", 200, ""))
         /\ UNCHANGED <<posts, comments, categories, next_post_id,
                         next_comment_id, now, import_time>>
    ELSE \E data \in Submitted(PostForms) :
         IF ~data.valid
         THEN /\ Answered(Resp("create_post", user, method, 0, "", 200, ""))
              /\ UNCHANGED <<posts, comments, categories, next_post_id,
                              next_comment_id, now, import_time>>
         ELSE /\ next_post_id <= MaxPosts
              /\ posts' = Insert(posts, next_post_id,
                      [PostFormSave(NewPost, data.form)
                          EXCEPT !.author = user])
              /\ next_post_id' = next_post_id + 1
              /\ Answered(Saved(Resp("create_post", user, method,
                                     next_post_id, "", 302, "profile"),
                                data.form))
              /\ UNCHANGED <<comments, categories, next_comment_id, now,
                             import_time>>

(* GET|POST /posts/<int:pk>/edit/ *)
PostUpdateView(user, pk, method) ==
    IF pk \notin DOMAIN posts
    THEN /\ Answered(Resp("edit_post", user, method, pk, "", 404, ""))
         /\ UNCHANGED <<posts, comments, categories, next_post_id,
                         next_comment_id, now, import_time>>
    ELSE IF ~PostUpdateTestFunc(user, pk)
    THEN /\ Answered(IF ~IsAuthenticated(user)
                     THEN RedirectTo("edit_post", user, method, pk, "",
                                     "post_detail", {"pk"})
                     ELSE Resp("edit_post", user, method, pk, "", 403, ""))
         /\ UNCHANGED <<posts, comments, categories, next_post_id,
                         next_comment_id, now, import_time>>
    ELSE IF method = "GET"
    THEN /\ Answered(Resp("edit_post", user, method, pk, "", 200, ""))
         /\ UNCHANGED <<posts, comments, categories, next_post_id,
                         next_comment_id, now, import_time>>
    ELSE \E data \in Submitted(PostForms) :
         IF ~data.valid
         THEN /\ Answered(Resp("edit_post", user, method, pk, "", 200, ""))
              /\ UNCHANGED <<posts, comments, categories, next_post_id,
                              next_comment_id, now, import_time>>
         ELSE /\ posts' = [posts EXCEPT ![pk] =
                      PostFormSave(posts[pk], data.form)]
              /\ Answered(Saved(RedirectTo("edit_post", user, method, pk, "",
                                           "post_detail", {"pk"}),
                                data.form))
              /\ UNCHANGED <<comments, categories, next_post_id,
                             next_comment_id, now, import_time>>

(* GET|POST /posts/<post_id>/delete/ *)
PostDeleteView(user, pk, method) ==
    IF ~IsAuthenticated(user)
    THEN /\ Answered(RedirectToLogin("delete_post", user, method, pk, ""))
         /\ UNCHANGED <<posts, comments, categories, next_post_id,
                         next_comment_id, now, import_time>>
    ELSE IF pk \notin PostDeleteQueryset(user)
    THEN /\ Answered(Resp("delete_post", user, method, pk, "", 404, ""))
         /\ UNCHANGED <<posts, comments, categories, next_post_id,
                         next_comment_id, now, import_time>>
    ELSE IF method = "GET"
    THEN /\ Answered(Resp("delete_post", user, method, pk, "", 200, ""))
         /\ UNCHANGED <<posts, comments, categories, next_post_id,
                         next_comment_id, now, import_time>>
    ELSE /\ posts' = Remove(posts, {pk})
         /\ comments' = CascadeDeletePost(comments, pk)
         /\ Answered(RedirectTo("delete_post", user, method, pk, "",
                                "index", {}))
         /\ UNCHANGED <<categories, next_post_id, next_comment_id, now,
                        import_time>>

----------------------------------------------------------------------------
(* Comment views.  CommentForm carries the comment's body, stored as       *)
(* Comment.text.                                                           *)

(* GET|POST /posts/<post_id>/comment/ *)
AddCommentView(user, post_id, method) ==
    IF ~IsAuthenticated(user)
    THEN /\ Answered(RedirectToLogin("add_comment", user, method, post_id, ""))
         /\ UNCHANGED <<posts, comments, categories, next_post_id,
                         next_comment_id, now, import_time>>
    ELSE IF method = "GET"
    THEN /\ Answered(IF post_id \notin DOMAIN posts
                     THEN Resp("add_comment", user, method, post_id, "", 404, "")
                     ELSE Resp("add_comment", user, method, post_id, "", 200, ""))
         /\ UNCHANGED <<posts, comments, categories, next_post_id,
                         next_comment_id, now, import_time>>
    ELSE \E data \in Submitted(CommentForms) :
         IF ~data.valid
         THEN /\ Answered(Resp("add_comment", user, method, post_id, "", 200, ""))
              /\ UNCHANGED <<posts, comments, categories, next_post_id,
                              next_comment_id, now, import_time>>
         ELSE IF post_id \notin DOMAIN posts
         THEN /\ Answered(Resp("add_comment", user, method, post_id, "", 404, ""))
              /\ UNCHANGED <<posts, comments, categories, next_post_id,
                              next_comment_id, now, import_time>>
         ELSE /\ next_comment_id <= MaxComments
              /\ comments' = Insert(comments, next_comment_id,
                      [CommentFormSave(NewComment, data.form)
                          EXCEPT !.author = user, !.post = post_id])
              /\ next_comment_id' = next_comment_id + 1
              /\ Answered(Saved(RedirectTo("add_comment", user, method,
                                           post_id, "", "post_detail",
                                           {"pk"}),
                                data.form))
              /\ UNCHANGED <<posts, categories, next_post_id, now,
                             import_time>>

(* GET|POST /posts/<post_id>/edit_comment/<comment_id>/ : dispatch looks   *)
(* the comment up and compares its author before LoginRequiredMixin runs.  *)
EditCommentView(user, comment_id, method) ==
    IF comment_id \notin DOMAIN comments
    THEN /\ Answered(Resp("edit_comment", user, method, comment_id, "", 404, ""))
         /\ UNCHANGED <<posts, comments, categories, next_post_id,
                         next_comment_id, now, import_time>>
    ELSE IF ~EditCommentIsAuthor(user, comment_id)
    THEN /\ Answered(Resp("edit_comment", user, method, comment_id, "", 404, ""))
         /\ UNCHANGED <<posts, comments, categories, next_post_id,
                         next_comment_id, now, import_time>>
    ELSE IF ~IsAuthenticated(user)
    THEN /\ Answered(RedirectToLogin("edit_comment", user, method, comment_id, ""))
         /\ UNCHANGED <<posts, comments, categories, next_post_id,
                         next_comment_id, now, import_time>>
    ELSE IF method = "GET"
    THEN /\ Answered(Resp("edit_comment", user, method, comment_id, "", 200, ""))
         /\ UNCHANGED <<posts, comments, categories, next_post_id,
                         next_comment_id, now, import_time>>
    ELSE \E data \in Submitted(CommentForms) :
         IF ~data.valid
         THEN /\ Answered(Resp("edit_comment", user, method, comment_id, "", 200, ""))
              /\ UNCHANGED <<posts, comments, categories, next_post_id,
                              next_comment_id, now, import_time>>
         ELSE /\ comments' = [comments EXCEPT ![comment_id] =
                      CommentFormSave(comments[comment_id], data.form)]
              /\ Answered(Saved(RedirectTo("edit_comment", user, method,
                                           comment_id, "", "index", {}),
                                data.form))
              /\ UNCHANGED <<posts, categories, next_post_id, next_comment_id,
                             now, import_time>>

(* GET|POST /posts/<post_id>/delete_comment/<comment_id>/ *)
DeleteCommentView(user, comment_id, method) ==
    IF comment_id \notin DOMAIN comments
    THEN /\ Answered(Resp("delete_comment", user, method, comment_id, "", 404, ""))
         /\ UNCHANGED <<posts, comments, categories, next_post_id,
                         next_comment_id, now, import_time>>
    ELSE IF ~DeleteCommentIsAuthor(user, comment_id)
    THEN /\ Answered(Resp("delete_comment", user, method, comment_id, "", 404, ""))
         /\ UNCHANGED <<posts, comments, categories, next_post_id,
                         next_comment_id, now, import_time>>
    ELSE IF ~IsAuthenticated(user)
    THEN /\ Answered(RedirectToLogin("delete_comment", user, method, comment_id, ""))
         /\ UNCHANGED <<posts, comments, categories, next_post_id,
                         next_comment_id, now, import_time>>
    ELSE IF method = "GET"
    THEN /\ Answered(Resp("delete_comment", user, method, comment_id, "", 200, ""))
         /\ UNCHANGED <<posts, comments, categories, next_post_id,
                         next_comment_id, now, import_time>>
    ELSE /\ comments' = Remove(comments, {comment_id})
         /\ Answered(RedirectTo("delete_comment", user, method, comment_id, "",
                                "post_detail", {"pk"}))
         /\ UNCHANGED <<posts, categories, next_post_id, next_comment_id,
                        now, import_time>>

----------------------------------------------------------------------------
(* The clock *)

(* Time passes between requests *)
Tick ==
    /\ Idle
    /\ now < MaxTime
    /\ now' = now + 1
    /\ crawl' = NoCrawl
    /\ UNCHANGED <<posts, comments, categories, next_post_id,
                   next_comment_id, import_time, response>>

(* The response is sent to the client *)
Respond ==
    /\ ~Idle
    /\ response' = NoResponse
    /\ UNCHANGED <<posts, comments, categories, next_post_id,
                   next_comment_id, now, import_time, crawl>>

----------------------------------------------------------------------------
(* Specification of the site *)

CategoryTable == [c \in Categories |-> c = "travel"]

Init ==
    /\ posts = NoTable
    /\ next_post_id = 1
    /\ comments = NoTable
    /\ next_comment_id = 1
    /\ categories = CategoryTable
    /\ now = 0
    /\ import_time = 0
    /\ response = NoResponse
    /\ crawl = NoCrawl

(* The views that write, and the detail view, from an empty database *)
Next ==
    \/ Idle /\ \E user \in Viewers, pk \in PostIds : PostDetailView(user, pk)
    \/ Idle /\ \E user \in Viewers, method \in Methods :
            PostCreateView(user, method)
    \/ Idle /\ \E user \in Viewers, pk \in PostIds, method \in Methods :
            PostUpdateView(user, pk, method)
    \/ Idle /\ \E user \in Viewers, pk \in PostIds, method \in Methods :
            PostDeleteView(user, pk, method)
    \/ Idle /\ \E user \in Viewers, post_id \in PostIds, method \in Methods :
            AddCommentView(user, post_id, method)
    \/ Idle /\ \E user \in Viewers, comment_id \in CommentIds,
                   method \in Methods :
            EditCommentView(user, comment_id, method)
    \/ Idle /\ \E user \in Viewers, comment_id \in CommentIds,
                   method \in Methods :
            DeleteCommentView(user, comment_id, method)
    \/ Respond

Spec == Init /\ [][Next]_vars

----------------------------------------------------------------------------
(* Specification of the listings: the three ListViews read the tables and  *)
(* the clock and write nothing, so they are checked over the databases     *)
(* below while the clock runs.                                             *)

(* Any one post: is_published and author are editable in PostAdmin, and    *)
(* the category is NULL once its Category row is deleted.                  *)
AnyPost ==
    [author : Users, is_published : BOOLEAN, pub_date : Times,
     category : Categories \cup {NoCategory}]

(* n published posts of one author in the published category, the first k *)
(* dated 0 and the others dated MaxTime                                    *)
Feed(author, n, k) ==
    [i \in 1..n |-> [author |-> author, is_published |-> TRUE,
                     pub_date |-> IF i <= k THEN 0 ELSE MaxTime,
                     category |-> "travel"]]

QueryDatabases ==
    {NoTable}
    \cup {Insert(NoTable, 1, row) : row \in AnyPost}
    \cup UNION {{Feed(author, n, k) : author \in Users, k \in 0..n} :
                    n \in 2..MaxListPosts}

InitQuery ==
    /\ posts \in QueryDatabases
    /\ next_post_id = Cardinality(DOMAIN posts) + 1
    /\ comments = NoTable
    /\ next_comment_id = 1
    /\ categories = CategoryTable
    /\ now = 0
    /\ import_time = 0
    /\ response = NoResponse
    /\ crawl = NoCrawl

NextQuery ==
    \/ Tick
    \/ Idle /\ \E user \in Viewers : PostListView(user)
    \/ Idle /\ \E user \in Viewers, slug \in Slugs :
            CategoryPostsView(user, slug)
    \/ Idle /\ \E user \in Viewers, username \in Usernames :
            ProfileView(user, username)
    \/ Respond

SpecQuery == InitQuery /\ [][NextQuery]_vars

----------------------------------------------------------------------------
(* Properties *)

(* The visibility policy of the design: published, in a published          *)
(* category, and not dated in the future.                                  *)
VisibleToPublic(p) ==
    /\ posts[p].is_published
    /\ posts[p].category # NoCategory
    /\ CategoryIsPublished(posts[p].category)
    /\ posts[p].pub_date <= now

ListingViews == {"index", "category_posts", "profile"}

ListingQueryset(view, target) ==
    IF view = "index" THEN IndexQueryset
    ELSE IF view = "category_posts" THEN CategoryQueryset(target)
    ELSE ProfileQueryset(target)

Rejected(r) ==
    \/ r.status \in {403, 404}
    \/ r.status = 302 /\ r.location = "login"

(* C1: an index page served to an anonymous viewer lists a post exactly    *)
(* when the post is published, its category is non-null and published and  *)
(* its pub_date is not after the time of the request.  (The clock stands   *)
(* while a response is in flight, so a response in the state was served at *)
(* time now; with one page the page is the whole listing.)                 *)
C1_IndexListsExactlyVisibleNow ==
    ( /\ response.view = "index"
      /\ response.user = Anonymous
      /\ response.status = 200
      /\ response.num_pages = 1 )
    => \A p \in DOMAIN posts :
           (p \in Range(response.object_list)) <=> VisibleToPublic(p)

(* C2: the detail view answers 200 for post p and viewer v only if v is    *)
(* the author or p is visible to the public, and answers not-found for     *)
(* every other pair.                                                       *)
C2_DetailFollowsVisibility ==
    ( /\ response.view = "post_detail"
      /\ response.pk \in DOMAIN posts )
    => LET allowed == \/ posts[response.pk].author = response.user
                      \/ VisibleToPublic(response.pk)
       IN  /\ response.status = 200 => allowed
           /\ ~allowed => response.status = 404

(* C3: an edit-comment or delete-comment request (GET or POST) on comment  *)
(* c by anyone but c's author is rejected and leaves c as it was.          *)
C3_OnlyAuthorChangesComment ==
    [][ \A c \in DOMAIN comments :
          ( /\ response'.view \in {"edit_comment", "delete_comment"}
            /\ response'.pk = c
            /\ response'.user # comments[c].author )
          => /\ Rejected(response')
             /\ c \in DOMAIN comments'
             /\ comments'[c] = comments[c] ]_vars

(* C3 witness: a logged-in user who is not the author POSTed an edit or a  *)
(* delete of an existing comment and was answered.                         *)
C3_Witness ==
    /\ response.view \in {"edit_comment", "delete_comment"}
    /\ response.method = "POST"
    /\ response.pk \in DOMAIN comments
    /\ IsAuthenticated(response.user)
    /\ comments[response.pk].author # response.user
    /\ response.status = 404

(* C4: a post changes or disappears only in an edit or delete request on   *)
(* it by its author, and an edit or delete request on it by anyone else    *)
(* leaves the posts and the comments as they were.                         *)
C4_OnlyAuthorChangesPost ==
    [][ \A p \in DOMAIN posts :
          /\ (p \notin DOMAIN posts' \/ posts'[p] # posts[p])
             => /\ response'.view \in {"edit_post", "delete_post"}
                /\ response'.pk = p
                /\ response'.user = posts[p].author
          /\ ( /\ response'.view \in {"edit_post", "delete_post"}
               /\ response'.pk = p
               /\ response'.user # posts[p].author )
             => /\ posts' = posts
                /\ comments' = comments ]_vars

(* C4 witness: a logged-in non-author POSTed a delete of a post that has a *)
(* comment, and the post and the comment are still there.                  *)
C4_Witness ==
    /\ response.view = "delete_post"
    /\ response.method = "POST"
    /\ response.pk \in DOMAIN posts
    /\ IsAuthenticated(response.user)
    /\ posts[response.pk].author # response.user
    /\ \E c \in DOMAIN comments : comments[c].post = response.pk

(* C5: a create-post request of an anonymous requester is answered with    *)
(* the redirect to the login page and stores nothing.                      *)
C5_AnonymousCreateStoresNothing ==
    [][ ( /\ response'.view = "create_post"
          /\ response'.user = Anonymous )
        => /\ posts' = posts
           /\ next_post_id' = next_post_id
           /\ response'.status = 302
           /\ response'.location = "login" ]_vars

(* C5 witness: an anonymous POST to the create view was answered while the *)
(* table still had room for the post.                                      *)
C5_Witness ==
    /\ response.view = "create_post"
    /\ response.user = Anonymous
    /\ response.method = "POST"
    /\ next_post_id <= MaxPosts

(* C6: every stored comment references a post, and that post is stored.    *)
C6_CommentsReferenceStoredPosts ==
    \A c \in DOMAIN comments :
        /\ comments[c].post # 0
        /\ comments[c].post \in DOMAIN posts

(* C6 witness: a post was deleted by its author after a comment had been   *)
(* added, and no comment is left.                                          *)
C6_Witness ==
    /\ response.view = "delete_post"
    /\ response.status = 302
    /\ next_comment_id > 1
    /\ comments = NoTable

C10_ProfileListsOnlyVisible ==
    ( /\ response.view = "profile"
      /\ response.status = 200
      /\ response.user # response.target )
    => \A p \in Range(response.object_list) : VisibleToPublic(p)

(* C7 (as claimed): a listing asked for a page beyond its last page N      *)
(* serves the contents of page N.                                          *)
C7_BeyondLastPageServesLastPage ==
    ( /\ response.view \in ListingViews
      /\ response.num_pages >= 1
      /\ response.page > response.num_pages )
    => /\ response.status = 200
       /\ \E tie \in TieOrders :
            response.object_list =
                PageObjects(OrderByPubDateDesc(
                                ListingQueryset(response.view, response.target),
                                tie),
                            response.num_pages)

(* C7 (amended): a listing asked for a page beyond its last page N answers *)
(* not-found and serves no posts, the same on the index, the category and  *)
(* the profile listing.                                                    *)
C7_BeyondLastPageNotFound ==
    ( /\ response.view \in ListingViews
      /\ response.num_pages >= 1
      /\ response.page > response.num_pages )
    => /\ response.status = 404
       /\ response.object_list = <<>>

(* C7 witness: page 3 of a profile listing of two pages was asked for *)
C7_Witness ==
    /\ response.view = "profile"
    /\ response.num_pages = 2
    /\ response.page = 3

PubDateDescending(list) ==
    \A i \in 1..(Len(list) - 1) :
        posts[list[i]].pub_date >= posts[list[i + 1]].pub_date

(* The places of post p on the pages the client was served *)
Places(p) ==
    {ij \in UNION {{<<i, j>> : j \in DOMAIN crawl.pages[i]} :
                        i \in DOMAIN crawl.pages} :
        crawl.pages[ij[1]][ij[2]] = p}

(* C8: a page of a listing holds at most 10 posts in descending pub_date   *)
(* order, and the pages 1..N a client is served in order hold each post of *)
(* the listing's queryset exactly once.                                    *)
C8_PagesPartitionListing ==
    /\ ( /\ response.view \in ListingViews
         /\ response.status = 200 )
       => /\ Len(response.object_list) <= PaginateBy
          /\ PubDateDescending(response.object_list)
    /\ LET qs == ListingQueryset(crawl.view, crawl.target)
       IN  ( /\ crawl.view \in ListingViews
             /\ Len(crawl.pages) = NumPages(Cardinality(qs)) )
           => /\ \A p \in qs : Cardinality(Places(p)) = 1
              /\ \A i \in DOMAIN crawl.pages :
                    Range(crawl.pages[i]) \subseteq qs

(* C11: ownership is fixed at creation.  A post appears only in a          *)
(* create-post request of an authenticated requester and has that          *)
(* requester as author; a comment appears only in an add-comment request   *)
(* and has the requester as author and the post of the URL as post; both   *)
(* whatever the submitted data says.  No request changes the author of a   *)
(* stored post, or the author or the post of a stored comment.  (Ids are   *)
(* never reused, so a row that keeps its owner in every step has the owner *)
(* it was created with.)                                                   *)
C11_OwnershipFixedAtCreation ==
    [][ /\ \A p \in DOMAIN posts' \ DOMAIN posts :
             /\ response'.view = "create_post"
             /\ IsAuthenticated(response'.user)
             /\ posts'[p].author = response'.user
        /\ \A c \in DOMAIN comments' \ DOMAIN comments :
             /\ response'.view = "add_comment"
             /\ IsAuthenticated(response'.user)
             /\ comments'[c].author = response'.user
             /\ comments'[c].post = response'.pk
        /\ \A p \in DOMAIN posts \cap DOMAIN posts' :
             posts'[p].author = posts[p].author
        /\ \A c \in DOMAIN comments \cap DOMAIN comments' :
             /\ comments'[c].author = comments[c].author
             /\ comments'[c].post = comments[c].post ]_vars

(* C11 witness: an edit of a comment was saved whose submitted data named  *)
(* another author and another post than the comment's, and the comment     *)
(* still has the requester as author and a stored post as post.            *)
C11_Witness ==
    /\ response.view = "edit_comment"
    /\ response.method = "POST"
    /\ response.pk \in DOMAIN comments
    /\ response.data \in CommentForms
    /\ response.data.author # comments[response.pk].author
    /\ response.data.post # comments[response.pk].post
    /\ comments[response.pk].text = response.data.text
    /\ comments[response.pk].author = response.user
    /\ comments[response.pk].post \in DOMAIN posts

====
